---------------------------- MODULE Spec2Model ----------------------------
(***************************************************************************)
(* gitd: Git Smart HTTP backend (src/gitd.go, revision with               *)
(* GitDHTTPHandler).                                                       *)
(*                                                                         *)
(* Representation of Go strings.                                           *)
(*  - A path string is the sequence of its "/"-separated segments, i.e.   *)
(*    strings.Split(s, "/"): "" is <<"">>, "/" is <<"","">>, "/a/.." is   *)
(*    <<"","a","..">>, "a//b" is <<"a","","b">>.  The representation is   *)
(*    one-to-one; joining two strings with "/" is sequence concatenation. *)
(*  - A byte string (bodies, frames) is the sequence of its characters.   *)
(*  - Names that the code only compares or concatenates (method, service, *)
(*    executable name) are atomic strings; Chars gives their characters.  *)
(* The model is of the unix build (GOOS below).                            *)
(***************************************************************************)
EXTENDS Integers, Sequences, FiniteSets, TLC

VARIABLES
    config,      \* config.ReposPath, the repositories root (a path string)
    req,         \* id -> the inbound request [method, path, service, body]
    pc,          \* id -> position of the handling goroutine
    h,           \* id -> handler locals [op, repoPath, process, cwd, text]
    w,           \* id -> http.ResponseWriter state
    cmd,         \* id -> exec.Cmd [name, args, dir]
    proc,        \* id -> the subprocess [state, exit, rd, wr, spawn]: rd the
                 \*       bytes it has read, wr the bytes it has written,
                 \*       spawn the command it was started with
    pipes,       \* id -> [stdin, stdout, wOpen, rOpen, stdinNil, stdoutNil]:
                 \*       the bytes buffered in the two pipes, the ends the
                 \*       server holds open, and whether runCommand's stdin
                 \*       and stdout are nil
    bodyPos,     \* id -> number of request-body bytes io.Copy has forwarded
    name,        \* argument of the pure function under check
    res          \* its result (<<>> before the call)

vars == <<config, req, pc, h, w, cmd, proc, pipes, bodyPos, name, res>>

reqVars == <<config, req, pc, h, w, cmd, proc, pipes, bodyPos>>

(***************************************************************************)
(* Bounds of the model.                                                    *)
(***************************************************************************)
MaxSegs == 2

\* Longest request body and longest subprocess output, in bytes
MaxBody == 2

MaxOut == 2

\* Capacity of an operating-system pipe, in bytes
PipeCap == 1

\* runtime.GOOS of the build that is modelled
GOOS == "linux"

\* Path segments a client can send
Segment == {".", "..", "a", "info", "refs", "git-upload-pack", "git-receive-pack"}

SeqsUpTo(S, n) == UNION {[1..k -> S] : k \in 0..n}

(***************************************************************************)
(* path/filepath (unix)                                                    *)
(***************************************************************************)
\* path == ""
IsEmptyString(path) == path = <<"">>

\* os.IsPathSeparator(path[0])
Rooted(path) == Len(path) >= 2 /\ path[1] = ""

\* The loop of filepath.Clean over the path elements: out is the lazybuf as
\* a sequence of elements, dotdot the number of leading ".." elements that
\* cannot be backtracked over.
RECURSIVE CleanLoop(_, _, _, _)
CleanLoop(rest, out, dotdot, rooted) ==
    IF rest = <<>> THEN out
    ELSE LET e == Head(rest) IN
         IF e = "" \/ e = "." THEN CleanLoop(Tail(rest), out, dotdot, rooted)
         ELSE IF e = ".." THEN
              IF Len(out) > dotdot
                 THEN CleanLoop(Tail(rest), SubSeq(out, 1, Len(out) - 1), dotdot, rooted)
              ELSE IF ~rooted
                 THEN CleanLoop(Tail(rest), Append(out, ".."), Len(out) + 1, rooted)
              ELSE CleanLoop(Tail(rest), out, dotdot, rooted)
         ELSE CleanLoop(Tail(rest), Append(out, e), dotdot, rooted)

\* filepath.Clean
Clean(path) ==
    IF IsEmptyString(path) THEN <<".">>
    ELSE LET out == CleanLoop(path, <<>>, 0, Rooted(path)) IN
         IF Rooted(path)
            THEN (IF out = <<>> THEN <<"", "">> ELSE <<"">> \o out)
            ELSE (IF out = <<>> THEN <<".">> ELSE out)

\* filepath.Join(a, b): leading empty elements are skipped, the rest is
\* joined with "/" and cleaned
Join(a, b) ==
    IF ~IsEmptyString(a) THEN Clean(a \o b)
    ELSE IF ~IsEmptyString(b) THEN Clean(b)
    ELSE <<"">>

\* filepath.ToSlash: replaces Separator by "/", the identity when the
\* separator is "/"
ToSlash(path) == path

\* strings.HasPrefix(name, "../")
HasDotDotSlashPrefix(s) == Len(s) >= 2 /\ s[1] = ".."

\* Volume labels a first segment can carry
DriveLabels == {"C:"}

\* name = name[2:] when name[1] == ':' on windows
StripVolume(s) ==
    IF GOOS = "windows" /\ s[1] \in DriveLabels THEN [s EXCEPT ![1] = ""] ELSE s

\* for strings.HasPrefix(name, "../") { name = name[3:] }
RECURSIVE StripDotDot(_)
StripDotDot(s) == IF HasDotDotSlashPrefix(s) THEN StripDotDot(Tail(s)) ELSE s

\* Variant: the leading "../" are stripped before the path is cleaned
sanitize_StripFirst(s) == ToSlash(Clean(StripDotDot(StripVolume(s))))

sanitize(s) == StripDotDot(ToSlash(Clean(StripVolume(s))))

(***************************************************************************)
(* Where a directory lies.  A relative directory is resolved against the   *)
(* working directory of the server process, as the operating system does.  *)
(***************************************************************************)
ServerCwd == <<"", "run">>

Abs(path) == IF Rooted(path) THEN Clean(path) ELSE Join(ServerCwd, path)

\* The path elements of an absolute, clean path
Elems(path) == IF path = <<"", "">> THEN <<>> ELSE Tail(path)

IsPrefixOf(s, t) == Len(s) <= Len(t) /\ SubSeq(t, 1, Len(s)) = s

\* dir is root itself or lies below it
Inside(root, dir) == IsPrefixOf(Elems(Abs(root)), Elems(Abs(dir)))

(***************************************************************************)
(* Specification of the path sanitizer alone: any path string of up to     *)
(* MaxSegs + 1 segments is given to sanitize.                              *)
(***************************************************************************)
\* config.ReposPath as init leaves it, a directory below os.TempDir()
DefaultRoot == <<"", "srv", "git">>

\* A configuration file can set any root, also a relative one
Roots == {DefaultRoot, <<"repos">>}

\* Longer paths: "a/../../etc/passwd", "../../etc/passwd"
LongPathStrings ==
    {<<"a", "..", "..", "etc", "passwd">>, <<"..", "..", "etc", "passwd">>}

PathStrings ==
    {p \in SeqsUpTo(Segment \cup {""}, MaxSegs + 1) : p # <<>>} \cup LongPathStrings

NoRequests ==
    /\ req = <<>> /\ pc = <<>> /\ h = <<>> /\ w = <<>> /\ cmd = <<>>
    /\ proc = <<>> /\ pipes = <<>> /\ bodyPos = <<>>

InitSanitize ==
    /\ config \in [ReposPath : Roots]
    /\ NoRequests
    /\ name \in PathStrings
    /\ res = <<>>

CallSanitize ==
    /\ res = <<>>
    /\ res' = sanitize(name)
    /\ UNCHANGED <<reqVars, name>>

NextSanitize == CallSanitize

SpecSanitize == InitSanitize /\ [][NextSanitize]_vars

(***************************************************************************)
(* Strings                                                                 *)
(***************************************************************************)
GitUploadPack == "git-upload-pack"

GitReceivePack == "git-receive-pack"

\* The characters of the strings the handlers write
Chars(s) ==
    CASE s = "git-upload-pack" ->
           <<"g","i","t","-","u","p","l","o","a","d","-","p","a","c","k">>
      [] s = "git-receive-pack" ->
           <<"g","i","t","-","r","e","c","e","i","v","e","-","p","a","c","k">>
      [] s = "# service=" -> <<"#"," ","s","e","r","v","i","c","e","=">>
      [] s = "Bad Request" -> <<"B","a","d"," ","R","e","q","u","e","s","t">>
      [] s = "Method Not Allowed" ->
           <<"M","e","t","h","o","d"," ","N","o","t"," ","A","l","l","o","w","e","d">>
      [] s = "0000" -> <<"0","0","0","0">>
      [] s = "" -> <<>>

(***************************************************************************)
(* Packet-line codec                                                       *)
(***************************************************************************)
HexDigit == <<"0","1","2","3","4","5","6","7","8","9","a","b","c","d","e","f">>

\* strconv.FormatInt(n, 16) for n >= 0
RECURSIVE FormatInt16(_)
FormatInt16(n) ==
    IF n < 16 THEN <<HexDigit[n + 1]>>
    ELSE FormatInt16(n \div 16) \o <<HexDigit[(n % 16) + 1]>>

\* strings.Repeat("0", k)
Repeat0(k) == [i \in 1..k |-> "0"]

\* Variant: the length is not padded with zeros
packetWrite_NoPad(str) == FormatInt16(Len(str) + 4) \o str

\* Variant: the length is padded to four digits, never to eight
packetWrite_FourDigits(str) ==
    LET s == FormatInt16(Len(str) + 4)
    IN  (IF Len(s) < 4 THEN Repeat0(4 - Len(s)) \o s ELSE s) \o str

\* Variant: the length prefix counts the payload only
packetWrite_PayloadLen(str) ==
    LET s == FormatInt16(Len(str))
        m == Len(s) % 4
    IN  (IF m # 0 THEN Repeat0(4 - m) \o s ELSE s) \o str

packetWrite(str) ==
    LET s == FormatInt16(Len(str) + 4)
        m == Len(s) % 4
    IN  (IF m # 0 THEN Repeat0(4 - m) \o s ELSE s) \o str

packetFlush == Chars("0000")

(***************************************************************************)
(* Specification of the codec alone: packetWrite is given any string of up *)
(* to MaxPayload characters and strings of the lengths at which the length *)
(* prefix gains a digit; packetFlush is called.  res is <<>> before the    *)
(* call and <<function, result>> after it.                                 *)
(***************************************************************************)
MaxPayload == 3

PayloadChars == {"x", "0", "\n"}

\* Lengths around the values of len(str) + 4 whose hexadecimal rendering
\* gains a digit: 0x10, 0x100, 0x1000, 0x10000
LongLens == {6, 11, 12, 27, 251, 252, 4091, 4092, 65531, 65532, 65533}

Payloads ==
    SeqsUpTo(PayloadChars, MaxPayload) \cup {[i \in 1..n |-> "x"] : n \in LongLens}

InitPacket ==
    /\ config = [ReposPath |-> DefaultRoot]
    /\ NoRequests
    /\ name \in Payloads
    /\ res = <<>>

CallPacketWrite ==
    /\ res = <<>>
    /\ res' = <<"packetWrite", packetWrite(name)>>
    /\ UNCHANGED <<reqVars, name>>

CallPacketFlush ==
    /\ res = <<>>
    /\ res' = <<"packetFlush", packetFlush>>
    /\ UNCHANGED <<reqVars, name>>

NextPacket == CallPacketWrite \/ CallPacketFlush

SpecPacket == InitPacket /\ [][NextPacket]_vars

(***************************************************************************)
(* http.ResponseWriter.  status 0: no status committed yet; header: the    *)
(* Content-Type of the header map the handler can still change; sent: the  *)
(* Content-Type that went out with the status; calls: the number of times  *)
(* a status was written, explicitly or by a first Write; implicit: the     *)
(* status was committed by a Write, not by WriteHeader; closed: the client *)
(* has closed the connection; arrived: the number of bytes of the request  *)
(* body that had reached the server by then.                               *)
(***************************************************************************)
NoType == <<>>

NewResponseWriter ==
    [status |-> 0, header |-> NoType, sent |-> NoType, body |-> <<>>, calls |-> 0,
     implicit |-> FALSE, closed |-> FALSE, arrived |-> 0]

StatusOK == 200

StatusBadRequest == 400

StatusMethodNotAllowed == 405

\* headers.Add("Content-Type", v): no effect on what was already sent
HeaderAdd(wr, v) == [wr EXCEPT !.header = v]

\* w.WriteHeader(code): the first call commits the status and the headers
WriteHeader(wr, code) ==
    IF wr.status # 0 THEN [wr EXCEPT !.calls = @ + 1]
    ELSE [wr EXCEPT !.status = code, !.sent = wr.header, !.calls = @ + 1]

\* http.DetectContentType of text
SniffedType == <<"text/plain; charset=utf-8">>

\* w.Write(b): commits 200 when no status was written; a response without
\* Content-Type gets the sniffed one
Write(wr, b) ==
    LET w1 == IF wr.status = 0
                 THEN [WriteHeader(wr, StatusOK) EXCEPT !.implicit = TRUE] ELSE wr
        w2 == IF w1.sent = NoType /\ w1.body = <<>> /\ b # <<>>
                 THEN [w1 EXCEPT !.sent = SniffedType] ELSE w1
    IN  [w2 EXCEPT !.body = @ \o b]

(***************************************************************************)
(* Routing                                                                 *)
(***************************************************************************)
\* Variant: the expressions lack the trailing "$"
handlers_Unanchored ==
    { [re |-> <<"git-upload-pack">>,  anchored |-> FALSE, handler |-> "UploadPack"],
      [re |-> <<"git-receive-pack">>, anchored |-> FALSE, handler |-> "ReceivePack"],
      [re |-> <<"info", "refs">>, anchored |-> FALSE, handler |-> "InfoRefs"] }

\* The handlers map of GitDHTTPHandler.  re is the literal of the regular
\* expression "(.*?)/<lit>$" as path segments, anchored its trailing "$".
handlers ==
    { [re |-> <<GitUploadPack>>,  anchored |-> TRUE, handler |-> "UploadPack"],
      [re |-> <<GitReceivePack>>, anchored |-> TRUE, handler |-> "ReceivePack"],
      [re |-> <<"info", "refs">>, anchored |-> TRUE, handler |-> "InfoRefs"] }

Min(S) == CHOOSE x \in S : \A y \in S : x <= y

\* The lengths k of a capture path[1..k] after which "/<lit>" follows (and,
\* when anchored, ends the path)
CaptureEnds(e, path) ==
    {k \in 1..(Len(path) - Len(e.re)) :
        /\ SubSeq(path, k + 1, k + Len(e.re)) = e.re
        /\ e.anchored => k + Len(e.re) = Len(path)}

Max(S) == CHOOSE x \in S : \A y \in S : x >= y

\* Path segments that contain a line feed (%0A in the URL)
LineFeedSegs == {"a\nb"}

\* The part of such a segment after its last line feed
AfterLineFeed(seg) == "b"

\* "." matches any character but a line feed and the expressions are not
\* anchored at the start: the leftmost match of "(.*?)" that ends where s
\* ends begins after the last line feed of s
Dots(s) ==
    LET feeds == {j \in 1..Len(s) : s[j] \in LineFeedSegs}
    IN  IF feeds = {} THEN s
        ELSE <<AfterLineFeed(s[Max(feeds)])>> \o SubSeq(s, Max(feeds) + 1, Len(s))

\* re.FindStringSubmatch(path): <<>> for nil, else <<m[0], m[1]>>; the
\* lazy group takes the shortest capture
FindStringSubmatch(e, path) ==
    IF CaptureEnds(e, path) = {} THEN <<>>
    ELSE LET k == Min(CaptureEnds(e, path))
             m1 == Dots(SubSeq(path, 1, k))
         IN  <<m1 \o e.re, m1>>

(***************************************************************************)
(* Specification of the route expressions alone: each expression of the    *)
(* handlers map is applied to any URL path of up to MaxRouteSegs segments. *)
(* res is <<>> before the call and <<handler, m>> after it.                *)
(***************************************************************************)
MaxRouteSegs == 5

RouteSegs == {"a", "a\nb", "info", "refs", "git-upload-pack"}

RoutePaths == {<<"">> \o p : p \in SeqsUpTo(RouteSegs, MaxRouteSegs)}

InitRoute ==
    /\ config = [ReposPath |-> DefaultRoot]
    /\ NoRequests
    /\ name \in RoutePaths
    /\ res = <<>>

CallFindStringSubmatch ==
    /\ res = <<>>
    /\ \E e \in handlers : res' = <<e.handler, FindStringSubmatch(e, name)>>
    /\ UNCHANGED <<reqVars, name>>

NextRoute == CallFindStringSubmatch

SpecRoute == InitRoute /\ [][NextRoute]_vars

\* The orders in which range can visit the map
Orders == {o \in [1..Cardinality(handlers) -> handlers] :
              \A i, j \in DOMAIN o : i # j => o[i] # o[j]}

\* The first entry of the order o that matches, 0 when none does
FirstMatch(o, path) ==
    LET hits == {i \in DOMAIN o : FindStringSubmatch(o[i], path) # <<>>}
    IN  IF hits = {} THEN 0 ELSE Min(hits)

(***************************************************************************)
(* Requests                                                                *)
(***************************************************************************)
Methods == {"GET", "POST", "PUT"}

\* Values of req.URL.Query().Get("service"); "" when the parameter is missing
Services == {"", GitUploadPack, GitReceivePack, "git-shell"}

Byte == {"x", "y"}

\* req.URL.Path: "" or a path that starts with "/"
UrlPaths == {<<"">> \o s : s \in SeqsUpTo(Segment, MaxSegs)}

\* The suffix "/info/refs" of the route whose handler reads the query
RefsSuffix == <<"info", "refs">>

HasRefsSuffix(path) ==
    /\ Len(path) > Len(RefsSuffix)
    /\ SubSeq(path, Len(path) - Len(RefsSuffix) + 1, Len(path)) = RefsSuffix

\* The requests a client can send.  The service parameter is enumerated on
\* the paths that end in /info/refs: no other handler reads the query.
Requests ==
    {q \in [method : Methods, path : UrlPaths, service : Services,
            body : SeqsUpTo(Byte, MaxBody)] :
        q.service # "" => HasRefsSuffix(q.path)}

NoLocals == [op |-> "", repoPath |-> <<>>, process |-> "", cwd |-> <<>>, text |-> ""]

NoCmd == [name |-> "", args |-> <<>>, dir |-> <<>>]

NoProc == [state |-> "none", exit |-> 0, rd |-> <<>>, wr |-> <<>>, spawn |-> NoCmd]

\* wOpen: the server holds the write end of the stdin pipe; rOpen: it holds
\* the read end of the stdout pipe; stdinNil, stdoutNil: the pipe could not
\* be acquired, runCommand's stdin (stdout) is nil and the process, if it is
\* started, has the null device in its place
NoPipes ==
    [stdin |-> <<>>, stdout |-> <<>>, wOpen |-> FALSE, rOpen |-> FALSE,
     stdinNil |-> FALSE, stdoutNil |-> FALSE]

\* The server with requests of the set Q being handled under the ids, none
\* of them started
InitOf(ids, Q) ==
    /\ config = [ReposPath |-> DefaultRoot]
    /\ req \in [ids -> Q]
    /\ pc = [r \in ids |-> "matching"]
    /\ h = [r \in ids |-> NoLocals]
    /\ w = [r \in ids |-> NewResponseWriter]
    /\ cmd = [r \in ids |-> NoCmd]
    /\ proc = [r \in ids |-> NoProc]
    /\ pipes = [r \in ids |-> NoPipes]
    /\ bodyPos = [r \in ids |-> 0]
    /\ name = <<>>
    /\ res = <<>>

InitRequests(ids) == InitOf(ids, Requests)

Init == InitRequests({1})

(***************************************************************************)
(* Router and handlers                                                     *)
(***************************************************************************)
\* w.WriteHeader(code) of a rejection; its w.Write(text) is the next step
Reject(r, code, text) ==
    /\ w' = [w EXCEPT ![r] = WriteHeader(@, code)]
    /\ h' = [h EXCEPT ![r].text = text]
    /\ pc' = [pc EXCEPT ![r] = "reject-write"]

\* Variant: an unrouted request is answered 404
GitDHTTPHandler_NotFound(r) ==
    /\ pc[r] = "matching"
    /\ \E o \in Orders :
         LET i == FirstMatch(o, req[r].path) IN
         IF i # 0
            THEN /\ h' = [h EXCEPT ![r].op = o[i].handler,
                                   ![r].repoPath =
                                       FindStringSubmatch(o[i], req[r].path)[2]]
                 /\ pc' = [pc EXCEPT ![r] = "method-check"]
                 /\ w' = w
            ELSE Reject(r, 404, "Bad Request")
    /\ UNCHANGED <<config, req, cmd, proc, pipes, bodyPos, name, res>>

\* GitDHTTPHandler: the range over the handlers map, in any order
GitDHTTPHandler(r) ==
    /\ pc[r] = "matching"
    /\ \E o \in Orders :
         LET i == FirstMatch(o, req[r].path) IN
         IF i # 0
            THEN /\ h' = [h EXCEPT ![r].op = o[i].handler,
                                   ![r].repoPath =
                                       FindStringSubmatch(o[i], req[r].path)[2]]
                 /\ pc' = [pc EXCEPT ![r] = "method-check"]
                 /\ w' = w
            ELSE Reject(r, StatusBadRequest, "Bad Request")
    /\ UNCHANGED <<config, req, cmd, proc, pipes, bodyPos, name, res>>

\* w.Write([]byte(text)); return
WriteRejection(r) ==
    /\ pc[r] = "reject-write"
    /\ w' = [w EXCEPT ![r] = Write(@, Chars(h[r].text))]
    /\ pc' = [pc EXCEPT ![r] = "rejected"]
    /\ UNCHANGED <<config, req, h, cmd, proc, pipes, bodyPos, name, res>>

\* UploadPack and ReceivePack up to cwd := filepath.Join(...)
PackEnter(r, process) ==
    IF req[r].method # "POST"
       THEN Reject(r, StatusMethodNotAllowed, "Method Not Allowed")
       ELSE /\ h' = [h EXCEPT ![r].process = process,
                              ![r].cwd = Join(config.ReposPath, h[r].repoPath)]
            /\ pc' = [pc EXCEPT ![r] = "set-headers"]
            /\ w' = w

UploadPack(r) ==
    /\ pc[r] = "method-check"
    /\ h[r].op = "UploadPack"
    /\ PackEnter(r, GitUploadPack)
    /\ UNCHANGED <<config, req, cmd, proc, pipes, bodyPos, name, res>>

\* Variant: ReceivePack was copied from UploadPack and kept its executable
ReceivePack_CopyPaste(r) ==
    /\ pc[r] = "method-check"
    /\ h[r].op = "ReceivePack"
    /\ PackEnter(r, GitUploadPack)
    /\ UNCHANGED <<config, req, cmd, proc, pipes, bodyPos, name, res>>

ReceivePack(r) ==
    /\ pc[r] = "method-check"
    /\ h[r].op = "ReceivePack"
    /\ PackEnter(r, GitReceivePack)
    /\ UNCHANGED <<config, req, cmd, proc, pipes, bodyPos, name, res>>

\* Variant: the service parameter is validated before the method
InfoRefs_ServiceFirst(r) ==
    /\ pc[r] = "method-check"
    /\ h[r].op = "InfoRefs"
    /\ IF req[r].service # GitReceivePack /\ req[r].service # GitUploadPack
          THEN Reject(r, StatusBadRequest, "Bad Request")
          ELSE IF req[r].method # "GET"
          THEN Reject(r, StatusMethodNotAllowed, "Method Not Allowed")
          ELSE /\ h' = [h EXCEPT ![r].process = req[r].service,
                                 ![r].cwd = Join(config.ReposPath, h[r].repoPath)]
               /\ pc' = [pc EXCEPT ![r] = "service-check"]
               /\ w' = w
    /\ UNCHANGED <<config, req, cmd, proc, pipes, bodyPos, name, res>>

\* InfoRefs: the method check, process := query service, cwd := Join(...)
InfoRefs(r) ==
    /\ pc[r] = "method-check"
    /\ h[r].op = "InfoRefs"
    /\ IF req[r].method # "GET"
          THEN Reject(r, StatusMethodNotAllowed, "Method Not Allowed")
          ELSE /\ h' = [h EXCEPT ![r].process = req[r].service,
                                 ![r].cwd = Join(config.ReposPath, h[r].repoPath)]
               /\ pc' = [pc EXCEPT ![r] = "service-check"]
               /\ w' = w
    /\ UNCHANGED <<config, req, cmd, proc, pipes, bodyPos, name, res>>

\* Variant: only a missing service is rejected
InfoRefsService_NonEmpty(r) ==
    /\ pc[r] = "service-check"
    /\ IF h[r].process = ""
          THEN Reject(r, StatusBadRequest, "Bad Request")
          ELSE /\ pc' = [pc EXCEPT ![r] = "set-headers"]
               /\ UNCHANGED <<w, h>>
    /\ UNCHANGED <<config, req, cmd, proc, pipes, bodyPos, name, res>>

\* InfoRefs: if process != "git-receive-pack" && process != "git-upload-pack"
InfoRefsService(r) ==
    /\ pc[r] = "service-check"
    /\ IF h[r].process # GitReceivePack /\ h[r].process # GitUploadPack
          THEN Reject(r, StatusBadRequest, "Bad Request")
          ELSE /\ pc' = [pc EXCEPT ![r] = "set-headers"]
               /\ UNCHANGED <<w, h>>
    /\ UNCHANGED <<config, req, cmd, proc, pipes, bodyPos, name, res>>

\* fmt.Sprintf("application/x-%s-result", process) and "...-advertisement"
ContentTypeOf(op, process) ==
    <<"application/x-", process,
      IF op = "InfoRefs" THEN "-advertisement" ELSE "-result">>

\* headers.Add("Content-Type", ...)
SetContentType(r) ==
    /\ pc[r] = "set-headers"
    /\ w' = [w EXCEPT ![r] = HeaderAdd(@, ContentTypeOf(h[r].op, h[r].process))]
    /\ pc' = [pc EXCEPT ![r] = "write-header"]
    /\ UNCHANGED <<config, req, h, cmd, proc, pipes, bodyPos, name, res>>

\* w.WriteHeader(http.StatusOK)
CommitOK(r) ==
    /\ pc[r] = "write-header"
    /\ w' = [w EXCEPT ![r] = WriteHeader(@, StatusOK)]
    /\ pc' = [pc EXCEPT ![r] = IF h[r].op = "InfoRefs" THEN "preamble" ELSE "command"]
    /\ UNCHANGED <<config, req, h, cmd, proc, pipes, bodyPos, name, res>>

\* fmt.Sprintf("# service=%s\n", process)
ServiceLine(process) == Chars("# service=") \o Chars(process) \o <<"\n">>

\* w.Write(packetWrite(fmt.Sprintf("# service=%s\n", process)))
WritePreamble(r) ==
    /\ pc[r] = "preamble"
    /\ w' = [w EXCEPT ![r] = Write(@, packetWrite(ServiceLine(h[r].process)))]
    /\ pc' = [pc EXCEPT ![r] = "flush"]
    /\ UNCHANGED <<config, req, h, cmd, proc, pipes, bodyPos, name, res>>

\* w.Write(packetFlush())
WriteFlush(r) ==
    /\ pc[r] = "flush"
    /\ w' = [w EXCEPT ![r] = Write(@, packetFlush)]
    /\ pc' = [pc EXCEPT ![r] = "command"]
    /\ UNCHANGED <<config, req, h, cmd, proc, pipes, bodyPos, name, res>>

\* The arguments after the executable name
ArgsOf(op) ==
    IF op = "InfoRefs" THEN <<"--stateless-rpc", "--advertise-refs", ".">>
    ELSE <<"--stateless-rpc", ".">>

\* Variant: cwd is a package-level variable that every handler assigns; the
\* command gets the value some handler has left in it
ExecCommand_SharedCwd(r) ==
    /\ pc[r] = "command"
    /\ \E r2 \in DOMAIN pc :
         /\ h[r2].cwd # <<>>
         /\ cmd' = [cmd EXCEPT ![r] = [name |-> h[r].process,
                                       args |-> <<h[r].process>> \o ArgsOf(h[r].op),
                                       dir |-> h[r2].cwd]]
    /\ pc' = [pc EXCEPT ![r] = "sanitize"]
    /\ UNCHANGED <<config, req, h, w, proc, pipes, bodyPos, name, res>>

\* cmd := exec.Command(process, args...); cmd.Dir = cwd
ExecCommand(r) ==
    /\ pc[r] = "command"
    /\ cmd' = [cmd EXCEPT ![r] = [name |-> h[r].process,
                                  args |-> <<h[r].process>> \o ArgsOf(h[r].op),
                                  dir |-> h[r].cwd]]
    /\ pc' = [pc EXCEPT ![r] = "sanitize"]
    /\ UNCHANGED <<config, req, h, w, proc, pipes, bodyPos, name, res>>

(***************************************************************************)
(* runCommand                                                              *)
(***************************************************************************)
\* if cmd.Dir != "" { cmd.Dir = sanitize(cmd.Dir) }
SanitizeDir(r) ==
    /\ pc[r] = "sanitize"
    /\ cmd' = [cmd EXCEPT ![r].dir =
                  IF ~IsEmptyString(@) THEN sanitize(@) ELSE @]
    /\ pc' = [pc EXCEPT ![r] = "stdin-pipe"]
    /\ UNCHANGED <<config, req, h, w, proc, pipes, bodyPos, name, res>>

\* stdin, err := cmd.StdinPipe(): the write end of a new pipe, or (os.Pipe
\* fails) nil and an error, which is logged
StdinPipe(r) ==
    /\ pc[r] = "stdin-pipe"
    /\ \E ok \in BOOLEAN :
         pipes' = IF ok THEN [pipes EXCEPT ![r].wOpen = TRUE]
                        ELSE [pipes EXCEPT ![r].stdinNil = TRUE]
    /\ pc' = [pc EXCEPT ![r] = "stdout-pipe"]
    /\ UNCHANGED <<config, req, h, w, cmd, proc, bodyPos, name, res>>

\* stdout, err := cmd.StdoutPipe(): the read end of a new pipe, or nil and
\* an error, which is logged
StdoutPipe(r) ==
    /\ pc[r] = "stdout-pipe"
    /\ \E ok \in BOOLEAN :
         pipes' = IF ok THEN [pipes EXCEPT ![r].rOpen = TRUE]
                        ELSE [pipes EXCEPT ![r].stdoutNil = TRUE]
    /\ pc' = [pc EXCEPT ![r] = "start"]
    /\ UNCHANGED <<config, req, h, w, cmd, proc, bodyPos, name, res>>

\* Variant: a failed Start is answered with a status of its own
Start_RejectOnFailure(r) ==
    /\ pc[r] = "start"
    /\ \E ok \in BOOLEAN :
         IF ok
            THEN /\ proc' = [proc EXCEPT ![r].state = "running", ![r].spawn = cmd[r]]
                 /\ pipes' = pipes
                 /\ pc' = [pc EXCEPT ![r] = "copy-in"]
                 /\ UNCHANGED <<w, h>>
            ELSE /\ pipes' = [pipes EXCEPT ![r].wOpen = FALSE, ![r].rOpen = FALSE]
                 /\ proc' = proc
                 /\ Reject(r, 500, "Bad Request")
    /\ UNCHANGED <<config, req, cmd, bodyPos, name, res>>

\* cmd.Start(): the process runs with cmd's name, arguments and directory,
\* or (executable or directory missing) Start fails, which closes both
\* pipes; the error is logged and runCommand goes on
Start(r) ==
    /\ pc[r] = "start"
    /\ \E ok \in BOOLEAN :
         IF ok
            THEN /\ proc' = [proc EXCEPT ![r].state = "running", ![r].spawn = cmd[r]]
                 /\ pipes' = pipes
            ELSE /\ pipes' = [pipes EXCEPT ![r].wOpen = FALSE, ![r].rOpen = FALSE]
                 /\ proc' = proc
    /\ pc' = [pc EXCEPT ![r] = "copy-in"]
    /\ UNCHANGED <<config, req, h, w, cmd, bodyPos, name, res>>

\* Variant: a byte that finds the pipe full is dropped, the write does not
\* block
CopyIn_DropWhenFull(r) ==
    /\ pc[r] = "copy-in"
    /\ IF bodyPos[r] = Len(req[r].body)
          THEN /\ pc' = [pc EXCEPT ![r] = "copy-out"]
               /\ UNCHANGED <<pipes, bodyPos>>
          ELSE IF pipes[r].stdinNil
          THEN /\ pc' = [pc EXCEPT ![r] = "panicked"]
               /\ UNCHANGED <<pipes, bodyPos>>
          ELSE IF ~pipes[r].wOpen \/ proc[r].state = "exited"
          THEN /\ pc' = [pc EXCEPT ![r] = "copy-out"]
               /\ UNCHANGED <<pipes, bodyPos>>
          ELSE /\ pipes' = IF Len(pipes[r].stdin) < PipeCap
                              THEN [pipes EXCEPT ![r].stdin =
                                       Append(@, req[r].body[bodyPos[r] + 1])]
                              ELSE pipes
               /\ bodyPos' = [bodyPos EXCEPT ![r] = @ + 1]
               /\ pc' = pc
    /\ UNCHANGED <<config, req, h, w, cmd, proc, name, res>>

\* Variant: the stdin pipe is closed when the copy of the body ends
CopyIn_CloseStdin(r) ==
    /\ pc[r] = "copy-in"
    /\ IF bodyPos[r] = Len(req[r].body)
          THEN /\ pc' = [pc EXCEPT ![r] = "copy-out"]
               /\ pipes' = [pipes EXCEPT ![r].wOpen = FALSE]
               /\ UNCHANGED bodyPos
          ELSE IF pipes[r].stdinNil
          THEN /\ pc' = [pc EXCEPT ![r] = "panicked"]
               /\ UNCHANGED <<pipes, bodyPos>>
          ELSE IF ~pipes[r].wOpen \/ proc[r].state = "exited"
          THEN /\ pc' = [pc EXCEPT ![r] = "copy-out"]
               /\ pipes' = [pipes EXCEPT ![r].wOpen = FALSE]
               /\ UNCHANGED bodyPos
          ELSE /\ Len(pipes[r].stdin) < PipeCap
               /\ pipes' = [pipes EXCEPT ![r].stdin =
                               Append(@, req[r].body[bodyPos[r] + 1])]
               /\ bodyPos' = [bodyPos EXCEPT ![r] = @ + 1]
               /\ pc' = pc
    /\ UNCHANGED <<config, req, h, w, cmd, proc, name, res>>

\* The request body as far as the server can read it: all of it, or the
\* bytes that had arrived when the client closed the connection
BodyEnd(r) == IF w[r].closed THEN w[r].arrived ELSE Len(req[r].body)

\* io.Copy(stdin, r), byte by byte: the end of the body (or a failed read)
\* ends the copy; the write of a byte to the nil stdin is a call through a
\* nil interface, a run-time panic that ends the handler; a write to a
\* closed pipe or to a pipe without reader fails and ends the copy; a write
\* to a full pipe blocks
CopyIn(r) ==
    /\ pc[r] = "copy-in"
    /\ IF bodyPos[r] = BodyEnd(r)
          THEN /\ pc' = [pc EXCEPT ![r] = "copy-out"]
               /\ UNCHANGED <<pipes, bodyPos>>
          ELSE IF pipes[r].stdinNil
          THEN /\ pc' = [pc EXCEPT ![r] = "panicked"]
               /\ UNCHANGED <<pipes, bodyPos>>
          ELSE IF ~pipes[r].wOpen \/ proc[r].state = "exited"
          THEN /\ pc' = [pc EXCEPT ![r] = "copy-out"]
               /\ UNCHANGED <<pipes, bodyPos>>
          ELSE /\ Len(pipes[r].stdin) < PipeCap
               /\ pipes' = [pipes EXCEPT ![r].stdin =
                               Append(@, req[r].body[bodyPos[r] + 1])]
               /\ bodyPos' = [bodyPos EXCEPT ![r] = @ + 1]
               /\ pc' = pc
    /\ UNCHANGED <<config, req, h, w, cmd, proc, name, res>>

\* Variant: the copy ends as soon as the process has exited, whatever the
\* pipe still holds
CopyOut_ExitEndsCopy(r) ==
    /\ pc[r] = "copy-out"
    /\ IF ~pipes[r].rOpen \/ proc[r].state = "exited"
          THEN /\ pc' = [pc EXCEPT ![r] = "wait"]
               /\ UNCHANGED <<pipes, w>>
          ELSE /\ pipes[r].stdout # <<>>
               /\ w' = [w EXCEPT ![r] = Write(@, <<Head(pipes[r].stdout)>>)]
               /\ pipes' = [pipes EXCEPT ![r].stdout = Tail(@)]
               /\ pc' = pc
    /\ UNCHANGED <<config, req, h, cmd, proc, bodyPos, name, res>>

\* Variant: the two copies run at the same time, the output copy does not
\* wait for the end of the body copy
CopyOut_Concurrent(r) ==
    /\ pc[r] \in {"copy-in", "copy-out"}
    /\ IF pipes[r].stdoutNil
          THEN /\ pc' = [pc EXCEPT ![r] = "panicked"]
               /\ UNCHANGED <<pipes, w>>
          ELSE IF ~pipes[r].rOpen
          THEN /\ pc[r] = "copy-out"
               /\ pc' = [pc EXCEPT ![r] = "wait"]
               /\ UNCHANGED <<pipes, w>>
          ELSE IF pipes[r].stdout # <<>>
          THEN /\ w' = [w EXCEPT ![r] = Write(@, <<Head(pipes[r].stdout)>>)]
               /\ pipes' = [pipes EXCEPT ![r].stdout = Tail(@)]
               /\ pc' = pc
          ELSE /\ pc[r] = "copy-out"
               /\ proc[r].state = "exited"
               /\ pc' = [pc EXCEPT ![r] = "wait"]
               /\ UNCHANGED <<pipes, w>>
    /\ UNCHANGED <<config, req, h, cmd, proc, bodyPos, name, res>>

\* io.Copy(w, stdout), byte by byte: the read from the nil stdout is a call
\* through a nil interface, a run-time panic that ends the handler; a read
\* from a closed pipe fails; a byte read is written to the response, and on
\* a connection the client has closed that write can fail, which ends the
\* copy; a read from an empty pipe whose writer has exited is the end of
\* file, a read from an empty pipe of a running process blocks
CopyOut(r) ==
    /\ pc[r] = "copy-out"
    /\ IF pipes[r].stdoutNil
          THEN /\ pc' = [pc EXCEPT ![r] = "panicked"]
               /\ UNCHANGED <<pipes, w>>
          ELSE IF ~pipes[r].rOpen
          THEN /\ pc' = [pc EXCEPT ![r] = "wait"]
               /\ UNCHANGED <<pipes, w>>
          ELSE IF pipes[r].stdout # <<>>
          THEN \/ /\ w' = [w EXCEPT ![r] = Write(@, <<Head(pipes[r].stdout)>>)]
                  /\ pipes' = [pipes EXCEPT ![r].stdout = Tail(@)]
                  /\ pc' = pc
               \/ /\ w[r].closed
                  /\ pipes' = [pipes EXCEPT ![r].stdout = Tail(@)]
                  /\ pc' = [pc EXCEPT ![r] = "wait"]
                  /\ w' = w
          ELSE /\ proc[r].state = "exited"
               /\ pc' = [pc EXCEPT ![r] = "wait"]
               /\ UNCHANGED <<pipes, w>>
    /\ UNCHANGED <<config, req, h, cmd, proc, bodyPos, name, res>>

\* Variant: the process of a client that has gone is killed instead of
\* awaited
Wait_KillOnDisconnect(r) ==
    /\ pc[r] = "wait"
    /\ proc[r].state \in {"none", "exited"} \/ w[r].closed
    /\ proc' = IF proc[r].state \in {"none", "exited"} THEN proc
               ELSE [proc EXCEPT ![r].state = "exited", ![r].exit = 1]
    /\ pipes' = [pipes EXCEPT ![r].wOpen = FALSE, ![r].rOpen = FALSE]
    /\ pc' = [pc EXCEPT ![r] = "done"]
    /\ UNCHANGED <<config, req, h, w, cmd, bodyPos, name, res>>

\* Variant: a failed process is reported with a second status
Wait_ReportsFailure(r) ==
    /\ pc[r] = "wait"
    /\ proc[r].state \in {"none", "exited"}
    /\ pipes' = [pipes EXCEPT ![r].wOpen = FALSE, ![r].rOpen = FALSE]
    /\ w' = [w EXCEPT ![r] =
                IF proc[r].state = "none" \/ proc[r].exit # 0
                   THEN WriteHeader(@, 500) ELSE @]
    /\ pc' = [pc EXCEPT ![r] = "done"]
    /\ UNCHANGED <<config, req, h, cmd, proc, bodyPos, name, res>>

\* cmd.Wait(): fails at once when the process was not started; else blocks
\* until the process has exited and then closes the server's pipe ends
Wait(r) ==
    /\ pc[r] = "wait"
    /\ proc[r].state \in {"none", "exited"}
    /\ pipes' = [pipes EXCEPT ![r].wOpen = FALSE, ![r].rOpen = FALSE]
    /\ pc' = [pc EXCEPT ![r] = "done"]
    /\ UNCHANGED <<config, req, h, w, cmd, proc, bodyPos, name, res>>

(***************************************************************************)
(* The spawned executable: it reads its standard input, writes its         *)
(* standard output and exits, in any order and with any exit status.       *)
(***************************************************************************)
ExitCodes == {0, 1}

ProcRead(r) ==
    /\ proc[r].state = "running"
    /\ pipes[r].stdin # <<>>
    /\ proc' = [proc EXCEPT ![r].rd = Append(@, Head(pipes[r].stdin))]
    /\ pipes' = [pipes EXCEPT ![r].stdin = Tail(@)]
    /\ UNCHANGED <<config, req, pc, h, w, cmd, bodyPos, name, res>>

\* A write to the stdout pipe blocks while the pipe is full; a write to the
\* null device is discarded
ProcWrite(r) ==
    /\ proc[r].state = "running"
    /\ Len(proc[r].wr) < MaxOut
    /\ pipes[r].stdoutNil \/ Len(pipes[r].stdout) < PipeCap
    /\ \E b \in Byte :
         /\ proc' = [proc EXCEPT ![r].wr = Append(@, b)]
         /\ pipes' = IF pipes[r].stdoutNil THEN pipes
                     ELSE [pipes EXCEPT ![r].stdout = Append(@, b)]
    /\ UNCHANGED <<config, req, pc, h, w, cmd, bodyPos, name, res>>

ProcExit(r) ==
    /\ proc[r].state = "running"
    /\ \E code \in ExitCodes :
         proc' = [proc EXCEPT ![r].state = "exited", ![r].exit = code]
    /\ UNCHANGED <<config, req, pc, h, w, cmd, pipes, bodyPos, name, res>>

\* Request slots of the server
Ids == {1, 2}

Active == DOMAIN pc

Next ==
    \/ \E r \in Ids : r \in Active /\ GitDHTTPHandler(r)
    \/ \E r \in Ids : r \in Active /\ WriteRejection(r)
    \/ \E r \in Ids : r \in Active /\ UploadPack(r)
    \/ \E r \in Ids : r \in Active /\ ReceivePack(r)
    \/ \E r \in Ids : r \in Active /\ InfoRefs(r)
    \/ \E r \in Ids : r \in Active /\ InfoRefsService(r)
    \/ \E r \in Ids : r \in Active /\ SetContentType(r)
    \/ \E r \in Ids : r \in Active /\ CommitOK(r)
    \/ \E r \in Ids : r \in Active /\ WritePreamble(r)
    \/ \E r \in Ids : r \in Active /\ WriteFlush(r)
    \/ \E r \in Ids : r \in Active /\ ExecCommand(r)
    \/ \E r \in Ids : r \in Active /\ SanitizeDir(r)
    \/ \E r \in Ids : r \in Active /\ StdinPipe(r)
    \/ \E r \in Ids : r \in Active /\ StdoutPipe(r)
    \/ \E r \in Ids : r \in Active /\ Start(r)
    \/ \E r \in Ids : r \in Active /\ CopyIn(r)
    \/ \E r \in Ids : r \in Active /\ CopyOut(r)
    \/ \E r \in Ids : r \in Active /\ Wait(r)
    \/ \E r \in Ids : r \in Active /\ ProcRead(r)
    \/ \E r \in Ids : r \in Active /\ ProcWrite(r)
    \/ \E r \in Ids : r \in Active /\ ProcExit(r)

Spec == Init /\ [][Next]_vars

(***************************************************************************)
(* The server with a subprocess that can block in a write: with its stdout *)
(* pipe full the process calls write and is suspended in the call until    *)
(* the pipe has room; while suspended it neither reads nor exits.          *)
(***************************************************************************)
\* Requests that reach every handler, with bodies of up to MaxBody bytes
BridgeRequests ==
    {q \in [method : {"GET", "POST"},
            path : {<<"", "a">>, <<"", "a", GitUploadPack>>,
                    <<"", "a", GitReceivePack>>, <<"", "a", "info", "refs">>},
            service : {"", GitUploadPack}, body : SeqsUpTo(Byte, MaxBody)] :
        q.service # "" => HasRefsSuffix(q.path)}

InitBridge == InitOf({1}, BridgeRequests)

ProcBlock(r) ==
    /\ proc[r].state = "running"
    /\ Len(proc[r].wr) < MaxOut
    /\ ~pipes[r].stdoutNil
    /\ Len(pipes[r].stdout) = PipeCap
    /\ proc' = [proc EXCEPT ![r].state = "blocked"]
    /\ UNCHANGED <<config, req, pc, h, w, cmd, pipes, bodyPos, name, res>>

ProcUnblock(r) ==
    /\ proc[r].state = "blocked"
    /\ Len(pipes[r].stdout) < PipeCap
    /\ \E b \in Byte :
         /\ proc' = [proc EXCEPT ![r].wr = Append(@, b), ![r].state = "running"]
         /\ pipes' = [pipes EXCEPT ![r].stdout = Append(@, b)]
    /\ UNCHANGED <<config, req, pc, h, w, cmd, bodyPos, name, res>>

NextStall ==
    \/ Next
    \/ \E r \in Ids : r \in Active /\ ProcBlock(r)
    \/ \E r \in Ids : r \in Active /\ ProcUnblock(r)

SpecStall == InitBridge /\ [][NextStall]_vars

(***************************************************************************)
(* The server with clients that close the connection while their request   *)
(* is handled: the bytes of the body that have not arrived are lost, and   *)
(* writes to the response can fail.  The handler is not notified.          *)
(***************************************************************************)
ClientDisconnect(r) ==
    /\ ~w[r].closed
    /\ pc[r] \notin {"done", "rejected", "panicked"}
    /\ \E n \in bodyPos[r]..Len(req[r].body) :
         w' = [w EXCEPT ![r].closed = TRUE, ![r].arrived = n]
    /\ UNCHANGED <<config, req, pc, h, cmd, proc, pipes, bodyPos, name, res>>

NextDisconnect ==
    \/ Next
    \/ \E r \in Ids : r \in Active /\ ClientDisconnect(r)

SpecDisconnect == InitBridge /\ [][NextDisconnect]_vars

(***************************************************************************)
(* Content Decoder.  A gzip stream is its header followed by compressed    *)
(* symbols; the decompressing reader is constructed from the header and    *)
(* then yields the byte of each compressed symbol, up to the first symbol  *)
(* that is not compressed data.                                            *)
(***************************************************************************)
GzipHeader == "gzip-header"

Deflated == {"X", "Y"}

Inflate(c) == IF c = "X" THEN "x" ELSE "y"

\* The bytes the decompressing reader yields of the stream s
RECURSIVE InflateAll(_)
InflateAll(s) ==
    IF s = <<>> \/ Head(s) \notin Deflated THEN <<>>
    ELSE <<Inflate(Head(s))>> \o InflateAll(Tail(s))

\* The decompressing stream can be constructed: the body has a gzip header
NewReaderOK(b) == Len(b) >= 1 /\ b[1] = GzipHeader

\* Values of Content-Encoding
Encodings == {"", "gzip", "x-gzip", "deflate"}

\* Variant: only the name gzip is recognized
decode_NoAlias(q) ==
    IF q.encoding = "gzip" /\ NewReaderOK(q.raw)
       THEN InflateAll(Tail(q.raw)) ELSE q.raw

\* decode(request): the decompressed stream when the encoding is gzip or its
\* alias and the stream can be constructed, the raw body otherwise
decode(q) ==
    IF q.encoding \in {"gzip", "x-gzip"} /\ NewReaderOK(q.raw)
       THEN InflateAll(Tail(q.raw)) ELSE q.raw

\* Bodies on the wire: plain bytes, and a gzip header followed by compressed
\* symbols or by bytes that are not compressed data
WireBodies ==
    SeqsUpTo(Byte, MaxBody)
        \cup {<<GzipHeader>> \o c : c \in SeqsUpTo(Deflated \cup {"x"}, MaxBody)}

\* Requests with a Content-Encoding: raw is the body on the wire, body the
\* stream the handler passes on, decoded whether the decoder has run
DecoderRequests ==
    {q \in [method : {"GET", "POST"},
            path : {<<"", "a">>, <<"", "a", GitUploadPack>>,
                    <<"", "a", GitReceivePack>>, <<"", "a", "info", "refs">>},
            service : {"", GitUploadPack}, encoding : Encodings,
            raw : WireBodies, body : WireBodies, decoded : {FALSE}] :
        /\ q.body = q.raw
        /\ q.service # "" => HasRefsSuffix(q.path)}

InitDecoded == InitOf({1}, DecoderRequests)

\* The upload and receive operations run the request body through the
\* decoder after the headers are committed, before the process bridge
ContentDecoder(r) ==
    /\ pc[r] = "command"
    /\ h[r].op # "InfoRefs"
    /\ ~req[r].decoded
    /\ req' = [req EXCEPT ![r].body = decode(req[r]), ![r].decoded = TRUE]
    /\ UNCHANGED <<config, pc, h, w, cmd, proc, pipes, bodyPos, name, res>>

NextDecoded ==
    \/ \E r \in Ids : r \in Active /\ GitDHTTPHandler(r)
    \/ \E r \in Ids : r \in Active /\ WriteRejection(r)
    \/ \E r \in Ids : r \in Active /\ UploadPack(r)
    \/ \E r \in Ids : r \in Active /\ ReceivePack(r)
    \/ \E r \in Ids : r \in Active /\ InfoRefs(r)
    \/ \E r \in Ids : r \in Active /\ InfoRefsService(r)
    \/ \E r \in Ids : r \in Active /\ SetContentType(r)
    \/ \E r \in Ids : r \in Active /\ CommitOK(r)
    \/ \E r \in Ids : r \in Active /\ WritePreamble(r)
    \/ \E r \in Ids : r \in Active /\ WriteFlush(r)
    \/ \E r \in Ids : r \in Active /\ ContentDecoder(r)
    \/ \E r \in Ids : r \in Active /\ (h[r].op # "InfoRefs" => req[r].decoded)
                                     /\ ExecCommand(r)
    \/ \E r \in Ids : r \in Active /\ SanitizeDir(r)
    \/ \E r \in Ids : r \in Active /\ StdinPipe(r)
    \/ \E r \in Ids : r \in Active /\ StdoutPipe(r)
    \/ \E r \in Ids : r \in Active /\ Start(r)
    \/ \E r \in Ids : r \in Active /\ CopyIn(r)
    \/ \E r \in Ids : r \in Active /\ CopyOut(r)
    \/ \E r \in Ids : r \in Active /\ Wait(r)
    \/ \E r \in Ids : r \in Active /\ ProcRead(r)
    \/ \E r \in Ids : r \in Active /\ ProcWrite(r)
    \/ \E r \in Ids : r \in Active /\ ProcExit(r)

SpecDecoded == InitDecoded /\ [][NextDecoded]_vars

(***************************************************************************)
(* The server handling two requests at the same time: net/http runs each   *)
(* handler in a goroutine of its own, and the steps of the two handlers    *)
(* and of their subprocesses interleave in any order.                      *)
(***************************************************************************)
\* Requests that differ in route, repository and body
ConcurrentRequests ==
    {[method |-> "POST", path |-> <<"", "a", GitUploadPack>>, service |-> "",
      body |-> <<"x">>],
     [method |-> "GET", path |-> <<"", "a">>, service |-> "", body |-> <<>>],
     [method |-> "POST", path |-> <<"", "a", "a", GitReceivePack>>,
      service |-> "", body |-> <<"y">>],
     [method |-> "GET", path |-> <<"", "info", "refs">>,
      service |-> GitReceivePack, body |-> <<>>]}

\* The two requests in flight: an upload or an unrouted request next to a
\* receive or a ref discovery
InitConcurrent ==
    /\ InitOf(Ids, ConcurrentRequests)
    /\ req[1].path \in {<<"", "a", GitUploadPack>>, <<"", "a">>}
    /\ req[2].path \notin {<<"", "a", GitUploadPack>>, <<"", "a">>}

SpecConcurrent == InitConcurrent /\ [][Next]_vars

(***************************************************************************)
(* Startup: init checks the version of the installed executable, main      *)
(* starts to serve.  name is the installed version <<major, minor, patch>>,*)
(* res holds the result of the check once init has run.                    *)
(***************************************************************************)
\* checkGitVersion(major, minor, patch): "TODO; return true"
checkGitVersion(major, minor, patch) == TRUE

\* Versions of the executable that can be installed
InstalledVersions ==
    {<<1, 9, 1>>, <<2, 1, 4>>, <<2, 2, 0>>, <<2, 2, 1>>, <<2, 3, 0>>, <<3, 0, 0>>}

InitStartup ==
    /\ config = [ReposPath |-> DefaultRoot]
    /\ NoRequests
    /\ name \in InstalledVersions
    /\ res = <<>>

\* init: if !checkGitVersion(2, 2, 1) { log.Panicln(...) }; a panic in init
\* ends the program before main
init ==
    /\ res = <<>>
    /\ res' = <<checkGitVersion(2, 2, 1)>>
    /\ UNCHANGED <<reqVars, name>>

\* main, graceful.Run: the server accepts the request q and calls
\* GitDHTTPHandler for it
Accept(r, q) ==
    /\ res = <<TRUE>>
    /\ r \notin Active
    /\ req' = [i \in Active \cup {r} |-> IF i = r THEN q ELSE req[i]]
    /\ pc' = [i \in Active \cup {r} |-> IF i = r THEN "matching" ELSE pc[i]]
    /\ h' = [i \in Active \cup {r} |-> IF i = r THEN NoLocals ELSE h[i]]
    /\ w' = [i \in Active \cup {r} |-> IF i = r THEN NewResponseWriter ELSE w[i]]
    /\ cmd' = [i \in Active \cup {r} |-> IF i = r THEN NoCmd ELSE cmd[i]]
    /\ proc' = [i \in Active \cup {r} |-> IF i = r THEN NoProc ELSE proc[i]]
    /\ pipes' = [i \in Active \cup {r} |-> IF i = r THEN NoPipes ELSE pipes[i]]
    /\ bodyPos' = [i \in Active \cup {r} |-> IF i = r THEN 0 ELSE bodyPos[i]]
    /\ UNCHANGED <<config, name, res>>

NextStartup ==
    \/ init
    \/ \E q \in ConcurrentRequests : Accept(1, q)
    \/ Next

SpecStartup == InitStartup /\ [][NextStartup]_vars

(***************************************************************************)
(* The server with a subprocess that reads its standard input until the    *)
(* end of file before it exits.  A read returns the end of file when the   *)
(* stdin pipe is empty and its write end is closed, or when the standard   *)
(* input is the null device (cmd.Stdin is nil: StdinPipe failed).          *)
(***************************************************************************)
AtEof(r) ==
    /\ pipes[r].stdin = <<>>
    /\ pipes[r].stdinNil \/ ~pipes[r].wOpen

ProcExitAtEof(r) == AtEof(r) /\ ProcExit(r)

NextUntilEof ==
    \/ \E r \in Ids : r \in Active /\ GitDHTTPHandler(r)
    \/ \E r \in Ids : r \in Active /\ WriteRejection(r)
    \/ \E r \in Ids : r \in Active /\ UploadPack(r)
    \/ \E r \in Ids : r \in Active /\ ReceivePack(r)
    \/ \E r \in Ids : r \in Active /\ InfoRefs(r)
    \/ \E r \in Ids : r \in Active /\ InfoRefsService(r)
    \/ \E r \in Ids : r \in Active /\ SetContentType(r)
    \/ \E r \in Ids : r \in Active /\ CommitOK(r)
    \/ \E r \in Ids : r \in Active /\ WritePreamble(r)
    \/ \E r \in Ids : r \in Active /\ WriteFlush(r)
    \/ \E r \in Ids : r \in Active /\ ExecCommand(r)
    \/ \E r \in Ids : r \in Active /\ SanitizeDir(r)
    \/ \E r \in Ids : r \in Active /\ StdinPipe(r)
    \/ \E r \in Ids : r \in Active /\ StdoutPipe(r)
    \/ \E r \in Ids : r \in Active /\ Start(r)
    \/ \E r \in Ids : r \in Active /\ CopyIn(r)
    \/ \E r \in Ids : r \in Active /\ CopyOut(r)
    \/ \E r \in Ids : r \in Active /\ Wait(r)
    \/ \E r \in Ids : r \in Active /\ ProcRead(r)
    \/ \E r \in Ids : r \in Active /\ ProcWrite(r)
    \/ \E r \in Ids : r \in Active /\ ProcExitAtEof(r)

SpecUntilEof == InitBridge /\ [][NextUntilEof]_vars

(***************************************************************************)
(* The server under fair scheduling: the goroutine of a request takes its  *)
(* next step when it can, and a running subprocess exits after finitely    *)
(* many reads and writes, without waiting for the end of its input.  A     *)
(* subprocess that finds its stdout pipe full goes on without the write,   *)
(* its output fits the pipe.                                               *)
(***************************************************************************)
\* The steps of the goroutine that handles the request
HandlerStep(r) ==
    \/ GitDHTTPHandler(r) \/ WriteRejection(r)
    \/ UploadPack(r) \/ ReceivePack(r) \/ InfoRefs(r) \/ InfoRefsService(r)
    \/ SetContentType(r) \/ CommitOK(r) \/ WritePreamble(r) \/ WriteFlush(r)
    \/ ExecCommand(r) \/ SanitizeDir(r) \/ StdinPipe(r) \/ StdoutPipe(r)
    \/ Start(r) \/ CopyIn(r) \/ CopyOut(r) \/ Wait(r)

Fairness ==
    \A r \in Ids :
        /\ WF_vars(r \in Active /\ HandlerStep(r))
        /\ WF_vars(r \in Active /\ ProcExit(r))

SpecFair == InitBridge /\ [][Next]_vars /\ Fairness

(***************************************************************************)
(* Properties                                                              *)
(***************************************************************************)
\* The path ends in "/<suf>": suf, a sequence of segments, ends the path
\* and a "/" precedes it
EndsWith(path, suf) ==
    /\ Len(path) > Len(suf)
    /\ SubSeq(path, Len(path) - Len(suf) + 1, Len(path)) = suf

OnUpload(r) == EndsWith(req[r].path, <<"git-upload-pack">>)

OnReceive(r) == EndsWith(req[r].path, <<"git-receive-pack">>)

OnInfoRefs(r) == EndsWith(req[r].path, <<"info", "refs">>)

Spawned(r) == proc[r].state # "none"

\* C1: for every request that reaches the process bridge, the working
\* directory given to the spawned executable lies inside the configured
\* repositories root, whatever "." and ".." segments the request path has.
C1_WorkingDirInsideRoot ==
    \A r \in DOMAIN pc :
        Spawned(r) => Inside(config.ReposPath, proc[r].spawn.dir)

\* C2: for every input path, sanitize(p) does not begin with an upward
\* traversal token, and joining sanitize(p) to a fixed root resolves to a
\* location inside that root.
C2_SanitizedStaysInRoot ==
    res # <<>> =>
        /\ res[1] # ".."
        /\ Inside(config.ReposPath, Join(config.ReposPath, res))

Finished(r) == pc[r] \in {"done", "rejected"}

\* The positions from exec.Command on: the preamble, if any, is written
BridgePcs ==
    {"command", "sanitize", "stdin-pipe", "stdout-pipe", "start", "copy-in",
     "copy-out", "wait", "done", "panicked"}

RejectPcs == {"reject-write", "rejected"}

BadRequestBody == <<"B","a","d"," ","R","e","q","u","e","s","t">>

MethodNotAllowedBody ==
    <<"M","e","t","h","o","d"," ","N","o","t"," ","A","l","l","o","w","e","d">>

\* The frame of "# service=<s>\n" followed by the flush frame
Advertisement(s) ==
    IF s = "git-upload-pack"
       THEN <<"0","0","1","e","#"," ","s","e","r","v","i","c","e","=",
              "g","i","t","-","u","p","l","o","a","d","-","p","a","c","k","\n",
              "0","0","0","0">>
       ELSE <<"0","0","1","f","#"," ","s","e","r","v","i","c","e","=",
              "g","i","t","-","r","e","c","e","i","v","e","-","p","a","c","k","\n",
              "0","0","0","0">>

C3_Headers(r) ==
    /\ w[r].calls <= 1
    /\ ~w[r].implicit
    /\ w[r].body # <<>> => w[r].status # 0
    /\ Finished(r) => w[r].calls = 1 /\ w[r].status # 0
    /\ w[r].status = 200 =>
          /\ w[r].sent # NoType
          /\ w[r].sent = w[r].header
          /\ w[r].sent[1] = "application/x-"
    /\ Spawned(r) => w[r].status = 200

\* C3: for every request exactly one HTTP status is written, by WriteHeader
\* and before any byte of the body; a 200 goes out together with the
\* operation's Content-Type; a committed status never changes afterwards,
\* also when the subprocess fails later.
C3_StatusCommittedOnce ==
    /\ [](\A r \in Active : C3_Headers(r))
    /\ [][\A r \in Active : w[r].status # 0 => w'[r].status = w[r].status]_vars

\* C3 witness: a request is done with status 200 and a body although its
\* subprocess exited with a failure
C3_FailedAfterOK ==
    \E r \in Active :
        /\ pc[r] = "done" /\ w[r].status = 200 /\ w[r].body # <<>>
        /\ proc[r].state = "exited" /\ proc[r].exit = 1

Unrouted(r) == ~OnUpload(r) /\ ~OnReceive(r) /\ ~OnInfoRefs(r)

\* C4: a request whose path ends in none of the three suffixes is answered
\* 400 with the plain-text body "Bad Request", whatever its method, and no
\* subprocess is spawned for it.
C4_UnroutedIsBadRequest ==
    \A r \in Active :
        Unrouted(r) =>
            /\ ~Spawned(r) /\ cmd[r] = NoCmd
            /\ pc[r] \in {"matching"} \cup RejectPcs
            /\ pc[r] \in RejectPcs => w[r].status = 400
            /\ pc[r] = "rejected" =>
                  w[r].body = BadRequestBody /\ w[r].sent = SniffedType
            /\ pc[r] # "rejected" => w[r].body = <<>>

C4_PostUnroutedRejected ==
    \E r \in Active :
        Unrouted(r) /\ req[r].method = "POST" /\ pc[r] = "rejected"

WrongMethod(r) ==
    \/ (OnUpload(r) \/ OnReceive(r)) /\ req[r].method # "POST"
    \/ OnInfoRefs(r) /\ req[r].method # "GET"

\* C5: a request on a route with the wrong method is answered 405 whatever
\* its query parameters; no Content-Type of the operation is set, no
\* preamble is written and no subprocess is spawned.
C5_WrongMethodIs405 ==
    \A r \in Active :
        WrongMethod(r) =>
            /\ ~Spawned(r) /\ cmd[r] = NoCmd
            /\ w[r].header = NoType
            /\ pc[r] \in {"matching", "method-check"} \cup RejectPcs
            /\ pc[r] \in RejectPcs => w[r].status = 405
            /\ pc[r] \notin RejectPcs => w[r].status = 0
            /\ w[r].body = IF pc[r] = "rejected" THEN MethodNotAllowedBody ELSE <<>>

C5_PostRefsBadServiceRejected ==
    \E r \in Active :
        /\ OnInfoRefs(r) /\ req[r].method = "POST" /\ req[r].service = "git-shell"
        /\ pc[r] = "rejected" /\ w[r].status = 405

BadService(r) ==
    /\ OnInfoRefs(r) /\ req[r].method = "GET"
    /\ req[r].service \notin {"git-upload-pack", "git-receive-pack"}

\* C6: a GET on /info/refs whose service parameter is missing or is not one
\* of the two service names is answered 400; no preamble frame is written
\* and no executable is spawned for it.
C6_BadServiceIs400 ==
    \A r \in Active :
        BadService(r) =>
            /\ ~Spawned(r) /\ cmd[r] = NoCmd
            /\ w[r].header = NoType
            /\ pc[r] \in {"matching", "method-check", "service-check"} \cup RejectPcs
            /\ pc[r] \in RejectPcs => w[r].status = 400
            /\ pc[r] \notin RejectPcs => w[r].status = 0
            /\ w[r].body = IF pc[r] = "rejected" THEN BadRequestBody ELSE <<>>

C6_ForeignServiceRejected ==
    \E r \in Active :
        BadService(r) /\ req[r].service = "git-shell" /\ pc[r] = "rejected"

GoodRefs(r) ==
    /\ OnInfoRefs(r) /\ req[r].method = "GET"
    /\ req[r].service \in {"git-upload-pack", "git-receive-pack"}

\* C7: a GET on /info/refs with a supported service s gets status 200 and
\* Content-Type application/x-<s>-advertisement; the body begins with the
\* frame of "# service=<s>\n" and the flush frame; every byte of subprocess
\* output comes after them; the executable is s with the arguments
\* --stateless-rpc --advertise-refs .
C7_RefsAdvertisement ==
    \A r \in Active :
        GoodRefs(r) =>
            LET s == req[r].service
                pre == Advertisement(s)
            IN  /\ pc[r] \notin RejectPcs
                /\ w[r].status \in {0, 200}
                /\ w[r].status = 200 =>
                      w[r].sent = <<"application/x-", s, "-advertisement">>
                /\ cmd[r] # NoCmd =>
                      /\ cmd[r].name = s
                      /\ cmd[r].args =
                            <<s, "--stateless-rpc", "--advertise-refs", ".">>
                /\ Spawned(r) =>
                      /\ proc[r].spawn.name = s
                      /\ proc[r].spawn.args =
                            <<s, "--stateless-rpc", "--advertise-refs", ".">>
                /\ pc[r] \in BridgePcs =>
                      /\ w[r].status = 200
                      /\ IsPrefixOf(pre, w[r].body)
                      /\ IsPrefixOf(SubSeq(w[r].body, Len(pre) + 1, Len(w[r].body)),
                                    proc[r].wr)
                /\ pc[r] \notin BridgePcs =>
                      /\ ~Spawned(r)
                      /\ IsPrefixOf(w[r].body, pre)

C7_RefsAdvertised ==
    \E r \in Active :
        /\ GoodRefs(r) /\ req[r].service = "git-receive-pack" /\ pc[r] = "done"
        /\ proc[r].wr # <<>>
        /\ w[r].body = Advertisement("git-receive-pack") \o proc[r].wr

\* C8: a POST on /git-upload-pack (/git-receive-pack) gets status 200 and
\* Content-Type application/x-git-upload-pack-result
\* (application/x-git-receive-pack-result); no preamble is written; the
\* executable is git-upload-pack (git-receive-pack) with the arguments
\* --stateless-rpc . and never the executable of the other route.
C8_PackResult ==
    \A r \in Active :
        (OnUpload(r) \/ OnReceive(r)) /\ req[r].method = "POST" =>
            LET s == IF OnUpload(r) THEN "git-upload-pack" ELSE "git-receive-pack"
            IN  /\ pc[r] \notin RejectPcs
                /\ w[r].status \in {0, 200}
                /\ w[r].status = 200 =>
                      w[r].sent = <<"application/x-", s, "-result">>
                /\ cmd[r] # NoCmd =>
                      /\ cmd[r].name = s
                      /\ cmd[r].args = <<s, "--stateless-rpc", ".">>
                /\ Spawned(r) =>
                      /\ w[r].status = 200
                      /\ proc[r].spawn.name = s
                      /\ proc[r].spawn.args = <<s, "--stateless-rpc", ".">>
                /\ IsPrefixOf(w[r].body, proc[r].wr)
                /\ pc[r] = "done" => w[r].status = 200

C8_ReceiveServed ==
    \E r \in Active :
        /\ OnReceive(r) /\ req[r].method = "POST" /\ pc[r] = "done"
        /\ proc[r].spawn.name = "git-receive-pack" /\ w[r].body # <<>>

PreambleOf(r) == IF OnInfoRefs(r) THEN Advertisement(req[r].service) ELSE <<>>

Matching(path) == {e \in handlers : FindStringSubmatch(e, path) # <<>>}

\* C10: at most one of the three route patterns matches a request path, so
\* every order of iteration over the pattern table dispatches the same
\* operation with the same repository path.
C10_AtMostOneRoute ==
    \A r \in Active :
        /\ Cardinality(Matching(req[r].path)) <= 1
        /\ pc[r] = "method-check" =>
              \A o \in Orders :
                  /\ FirstMatch(o, req[r].path) # 0
                  /\ o[FirstMatch(o, req[r].path)].handler = h[r].op
                  /\ FindStringSubmatch(o[FirstMatch(o, req[r].path)],
                                        req[r].path)[2] = h[r].repoPath

C10_Dispatched ==
    \E r \in Active : h[r].op = "InfoRefs" /\ pc[r] = "method-check"

(***************************************************************************)
(* Packet-line frames as a reader takes them apart                         *)
(***************************************************************************)
LowerHex == <<"0","1","2","3","4","5","6","7","8","9","a","b","c","d","e","f">>

IsLowerHex(c) == \E v \in 0..15 : LowerHex[v + 1] = c

HexValue(c) == CHOOSE v \in 0..15 : LowerHex[v + 1] = c

AllLowerHex(s) == \A i \in 1..Len(s) : IsLowerHex(s[i])

\* The number a string of hexadecimal digits denotes
RECURSIVE ParseHex(_)
ParseHex(s) ==
    IF Len(s) = 0 THEN 0
    ELSE 16 * ParseHex(SubSeq(s, 1, Len(s) - 1)) + HexValue(s[Len(s)])

DecodeError == <<"decode-frame: malformed frame">>

\* decode-frame: the first 4 hexadecimal digits are the total length of the
\* frame; the result is the length - 4 bytes that follow them
DecodeFrame(f) ==
    IF Len(f) < 4 \/ ~AllLowerHex(SubSeq(f, 1, 4)) THEN DecodeError
    ELSE LET length == ParseHex(SubSeq(f, 1, 4))
         IN  IF length < 4 \/ length > Len(f) THEN DecodeError
             ELSE SubSeq(f, 5, length)

Written == res # <<>> /\ res[1] = "packetWrite"

Flushed == res # <<>> /\ res[1] = "packetFlush"

\* C11 as stated: for every string s, decode-frame(packetWrite(s)) = s, also
\* when len(s) + 4 needs more than 4 hexadecimal digits.
C11_RoundTripEveryLength == Written => DecodeFrame(res[2]) = name

\* C11 amended: for every string s with len(s) + 4 < 65536,
\* decode-frame(packetWrite(s)) = s; for a longer s the frame begins with a
\* length of 8 digits and decode-frame does not return s.
C11_RoundTripFourDigits ==
    Written =>
        IF Len(name) + 4 < 65536
           THEN DecodeFrame(res[2]) = name
           ELSE /\ DecodeFrame(res[2]) # name
                /\ Len(res[2]) = Len(name) + 8

\* C11 witness: the longest payload whose length fits 4 digits is framed
\* with the length ffff and decoded
C11_LongestFrameDecoded ==
    /\ Written /\ Len(name) = 65531
    /\ SubSeq(res[2], 1, 4) = <<"f","f","f","f">>
    /\ DecodeFrame(res[2]) = name

\* C12: packetWrite(p) is len(p) + 4 in lowercase hexadecimal, padded with
\* zeros on the left to the smallest multiple of 4 digits, at least 4,
\* followed by p unchanged; packetWrite("") is 0004; packetFlush() is 0000;
\* no result of packetWrite is the flush frame.
C12_FrameFormat ==
    /\ Flushed => res[2] = <<"0","0","0","0">>
    /\ Written =>
          LET out == res[2]
              width == Len(out) - Len(name)
          IN  /\ width >= 4 /\ width % 4 = 0
              /\ AllLowerHex(SubSeq(out, 1, width))
              /\ ParseHex(SubSeq(out, 1, width)) = Len(name) + 4
              /\ width > 4 => Len(name) + 4 >= 16 ^ (width - 4)
              /\ SubSeq(out, width + 1, Len(out)) = name
              /\ out # <<"0","0","0","0">>
              /\ name = <<>> => out = <<"0","0","0","4">>

\* C12 witness: a payload of 65532 bytes is framed with the 8 digits 00010000
C12_EightDigits ==
    /\ Written /\ Len(name) = 65532
    /\ SubSeq(res[2], 1, 8) = <<"0","0","0","1","0","0","0","0">>

Gzipped(r) ==
    /\ req[r].encoding \in {"gzip", "x-gzip"}
    /\ req[r].raw # <<>> /\ Head(req[r].raw) = "gzip-header"

\* The bytes the subprocess is to be given
Expected(r) == IF Gzipped(r) THEN InflateAll(Tail(req[r].raw)) ELSE req[r].raw

SuffixOf(handler) ==
    CASE handler = "UploadPack" -> <<"git-upload-pack">>
      [] handler = "ReceivePack" -> <<"git-receive-pack">>
      [] handler = "InfoRefs" -> <<"info", "refs">>

\* C14: for every path that matches a pattern, the captured path followed
\* by the suffix of the pattern is the request path, also when the suffix
\* occurs more than once in the path.
C14_CaptureIsPathWithoutSuffix ==
    res # <<>> /\ res[2] # <<>> => res[2][2] \o SuffixOf(res[1]) = name

\* The number of leading "../" of the path q: its leading ".." segments that
\* another segment follows
LeadingDotDots(q) ==
    Max({k \in 0..(Len(q) - 1) : \A i \in 1..k : q[i] = ".."})

WithoutLeadingDotDots(q) == SubSeq(q, LeadingDotDots(q) + 1, Len(q))

\* C15: for every path p, sanitize(p) is the lexically normalized p with all
\* its leading "../" removed; "a/../../etc/passwd" is normalized to
\* "../etc/passwd" and becomes "etc/passwd", which stripping before
\* normalizing would not give.
C15_CleanThenStrip ==
    res # <<>> =>
        /\ res = WithoutLeadingDotDots(Clean(name))
        /\ name = <<"a", "..", "..", "etc", "passwd">> =>
              /\ Clean(name) = <<"..", "etc", "passwd">>
              /\ res = <<"etc", "passwd">>
              /\ Clean(WithoutLeadingDotDots(name)) # res

C15_PasswdExample ==
    /\ name = <<"a", "..", "..", "etc", "passwd">>
    /\ res = <<"etc", "passwd">>

\* Bytes of subprocess output are in the response
OutputForwarded(r) == pc[r] \in BridgePcs /\ Len(w[r].body) > Len(PreambleOf(r))

\* C16: within one request no byte of subprocess output is written to the
\* response before the copy of the request body to the subprocess has
\* finished; the copy finishes with the whole body forwarded unless the
\* write to the subprocess failed (it has exited or was not started).
C16_BodyBeforeOutput ==
    /\ [](\A r \in Active :
            OutputForwarded(r) =>
                /\ pc[r] \in {"copy-out", "wait", "done"}
                /\ bodyPos[r] = Len(req[r].body) \/ proc[r].state # "running")
    /\ [][\A r \in Active :
            pc[r] \in BridgePcs /\ w'[r].body # w[r].body => pc[r] = "copy-out"]_vars

\* C16 witness: the subprocess had output waiting before the body copy
\* ended; it is forwarded after the whole body
C16_OutputAfterBody ==
    \E r \in Active :
        /\ pc[r] = "copy-out" /\ OnUpload(r)
        /\ Len(req[r].body) = 2 /\ bodyPos[r] = 2
        /\ Len(w[r].body) = 1 /\ proc[r].state = "running"

\* The bridge is blocked in the write of the rest of the body to the full
\* stdin pipe, the subprocess in a write to the full stdout pipe, which the
\* bridge has not begun to read
Stalled(r) ==
    /\ pc[r] = "copy-in"
    /\ bodyPos[r] < Len(req[r].body)
    /\ pipes[r].wOpen /\ Len(pipes[r].stdin) = PipeCap
    /\ proc[r].state = "blocked"
    /\ pipes[r].rOpen /\ Len(pipes[r].stdout) = PipeCap
    /\ ~OutputForwarded(r)

\* C17: with pipes of finite capacity the body copy followed by the output
\* copy can reach a stall (the bridge blocked writing the body, the
\* subprocess blocked writing output that the bridge does not read yet);
\* no step leads out of it, so the request never reaches done.
C17_StallIsFinal ==
    /\ [](\A r \in Active : Stalled(r) => pc[r] # "done" /\ ~ENABLED NextStall)
    /\ [][\A r \in Active : Stalled(r) => Stalled(r)']_vars

C17_StallReached == \E r \in Active : Stalled(r)

\* cmd.Start has failed
StartFailed(r) ==
    pc[r] \in {"copy-in", "copy-out", "wait", "done", "panicked"} /\ proc[r].state = "none"

\* The executable could not be spawned, a pipe could not be acquired, or
\* the process has exited with a status other than 0
SubprocessFailed(r) ==
    \/ StartFailed(r)
    \/ pipes[r].stdinNil \/ pipes[r].stdoutNil
    \/ proc[r].state = "exited" /\ proc[r].exit # 0

\* C18: after a failure of the subprocess the handler goes on to done (the
\* failure is only logged); the response keeps the status 200 written
\* before and the Content-Type of the operation; no other status is written.
C18_FailureOnlyLogged ==
    \A r \in Active :
        SubprocessFailed(r) =>
            /\ pc[r] # "panicked"
            /\ w[r].status = 200 /\ w[r].calls = 1
            /\ w[r].sent = ContentTypeOf(h[r].op, h[r].process)

\* C19: a request that has spawned a subprocess is done only after the
\* subprocess has exited; the subprocess exits by a step of its own, no
\* step of the bridge ends it; a client disconnect leaves the subprocess
\* and the position of the handler as they are.
C19_DoneOnlyAfterExit ==
    /\ [](\A r \in Active : pc[r] = "done" /\ Spawned(r) => proc[r].state = "exited")
    /\ [][\A r \in Active :
            proc'[r].state = "exited" /\ proc[r].state # "exited"
                => pc' = pc /\ w' = w /\ pipes' = pipes /\ proc[r].state = "running"]_vars
    /\ [][\A r \in Active :
            w'[r].closed /\ ~w[r].closed => proc' = proc /\ pc' = pc]_vars

\* C19 witness: the client has gone, the output copy has ended with a write
\* error, and the handler is blocked in cmd.Wait on a subprocess that is
\* still running
C19_BlockedAfterDisconnect ==
    \E r \in Active :
        w[r].closed /\ pc[r] = "wait" /\ proc[r].state = "running"

\* The state of a request: 0 matching, 1 method-check (up to the commit of
\* the headers), 2 headers-committed, 3 streaming (a handler that panics
\* stops there), 4 done, 5 rejected
Phase(p) ==
    CASE p = "matching" -> 0
      [] p \in {"method-check", "service-check", "set-headers", "write-header"} -> 1
      [] p \in {"preamble", "flush", "command", "sanitize", "stdin-pipe",
                "stdout-pipe", "start"} -> 2
      [] p \in {"copy-in", "copy-out", "wait", "panicked"} -> 3
      [] p = "done" -> 4
      [] p \in RejectPcs -> 5

\* A step of request r keeps its state or moves it to the next one, or
\* rejects it; a rejected request stays rejected
InOrder(r) ==
    /\ Phase(pc[r]) = 5 => Phase(pc'[r]) = 5
    /\ Phase(pc'[r]) # 5 => Phase(pc'[r]) \in {Phase(pc[r]), Phase(pc[r]) + 1}

Rejecting(r) == Phase(pc'[r]) = 5 /\ Phase(pc[r]) # 5

FromMatching(r) == pc[r] = "matching" /\ w'[r].status = 400

FromMethodCheck(r) == pc[r] = "method-check" /\ w'[r].status = 405

FromServiceCheck(r) ==
    /\ pc[r] = "service-check" /\ w'[r].status = 400
    /\ h[r].op = "InfoRefs" /\ req[r].method = "GET"

PhaseInvariant(r) ==
    /\ Phase(pc[r]) \in {0, 1} => w[r].status = 0 /\ ~Spawned(r)
    /\ Phase(pc[r]) \in {2, 3, 4} => w[r].status = 200
    /\ Phase(pc[r]) = 5 => w[r].status \in {400, 405} /\ ~Spawned(r) /\ cmd[r] = NoCmd

\* C20 as stated: every request moves through matching, method-check,
\* headers-committed, streaming, done in that order; it is rejected only
\* from matching (400) or by the method check (405), never after the method
\* check has passed; a rejected request never enters headers-committed or
\* streaming.
C20_RejectedOnlyAtRouting ==
    /\ [](\A r \in Active : PhaseInvariant(r))
    /\ [][\A r \in Active :
            /\ InOrder(r)
            /\ Rejecting(r) => FromMatching(r) \/ FromMethodCheck(r)]_vars

\* C20 amended: as stated, but on the /info/refs route a GET that has passed
\* the method check is still rejected (400) by the check of the service
\* parameter; every rejection happens before the headers are committed.
C20_RejectedBeforeCommit ==
    /\ [](\A r \in Active : PhaseInvariant(r))
    /\ [][\A r \in Active :
            /\ InOrder(r)
            /\ Rejecting(r) =>
                  FromMatching(r) \/ FromMethodCheck(r) \/ FromServiceCheck(r)]_vars

\* C20 witness: a GET on /info/refs was rejected after its method check
C20_RejectedAfterMethodCheck ==
    \E r \in Active :
        /\ pc[r] = "rejected" /\ h[r].op = "InfoRefs" /\ h[r].process = "git-shell"
        /\ req[r].method = "GET" /\ w[r].status = 400

\* What a request determines by itself: the status, the executable, the
\* repository path, the command and the Content-Type
StatusOf(r) ==
    IF Unrouted(r) THEN 400
    ELSE IF WrongMethod(r) THEN 405
    ELSE IF BadService(r) THEN 400
    ELSE 200

ProcessOf(r) ==
    IF OnUpload(r) THEN "git-upload-pack"
    ELSE IF OnReceive(r) THEN "git-receive-pack"
    ELSE req[r].service

RepoPathOf(r) ==
    LET n == IF OnInfoRefs(r) THEN 2 ELSE 1
    IN  SubSeq(req[r].path, 1, Len(req[r].path) - n)

CommandOf(r) ==
    [name |-> ProcessOf(r),
     args |-> IF OnInfoRefs(r)
                 THEN <<ProcessOf(r), "--stateless-rpc", "--advertise-refs", ".">>
                 ELSE <<ProcessOf(r), "--stateless-rpc", ".">>,
     dir |-> sanitize(Join(DefaultRoot, RepoPathOf(r)))]

TypeOf(r) ==
    <<"application/x-", ProcessOf(r),
      IF OnInfoRefs(r) THEN "-advertisement" ELSE "-result">>

\* The positions of the two copies and after
StreamingPcs == {"copy-in", "copy-out", "wait", "done", "panicked"}

\* Everything the server holds for one request
Local(r) == <<req[r], pc[r], h[r], w[r], cmd[r], proc[r], pipes[r], bodyPos[r]>>

\* The outcome of the request is the one it determines by itself, and its
\* pipes carry its own body and the output of its own subprocess
Isolated(r) ==
    /\ w[r].status \in {0, StatusOf(r)}
    /\ w[r].status = 200 => w[r].sent = TypeOf(r)
    /\ Spawned(r) => proc[r].spawn = CommandOf(r) /\ pc[r] \in StreamingPcs
    /\ IsPrefixOf(proc[r].rd \o pipes[r].stdin, req[r].body)
    /\ pc[r] \in BridgePcs /\ ~pipes[r].stdoutNil =>
          w[r].body \o pipes[r].stdout = PreambleOf(r) \o proc[r].wr

\* A step acts on one request; a subprocess is started only by the
\* cmd.Start of its request, which has none before; the repositories root
\* is not written
StepIsLocal ==
    /\ config' = config
    /\ \A r1, r2 \in Active :
          r1 # r2 => Local(r1)' = Local(r1) \/ Local(r2)' = Local(r2)
    /\ \A r \in Active :
          /\ proc'[r].spawn # proc[r].spawn \/ Spawned(r)' # Spawned(r) =>
                ~Spawned(r) /\ pc[r] = "start"
          /\ Spawned(r)' /\ ~Spawned(r) => proc'[r].spawn = cmd[r]

\* C21 as stated: under any interleaving of two requests, each request that
\* reaches streaming has spawned exactly one subprocess, no subprocess or
\* pipe is used by two requests, and status, Content-Type, executable,
\* arguments and working directory are determined by the request alone.
C21_ExactlyOneSubprocess ==
    /\ [](\A r \in Active :
            /\ Isolated(r)
            /\ pc[r] \in StreamingPcs => Spawned(r))
    /\ [][StepIsLocal]_vars

\* C21 amended: under any interleaving of two requests, each request spawns
\* at most one subprocess (none when cmd.Start fails), by its own cmd.Start;
\* no subprocess or pipe is used by two requests; status, Content-Type,
\* executable, arguments and working directory are determined by the request
\* alone, and the repositories root is never written.
C21_RequestsIsolated ==
    /\ [](\A r \in Active : Isolated(r))
    /\ [][StepIsLocal]_vars

\* Two subprocesses run at the same time in different repositories, one of
\* them has read the body of its request
C21_TwoSubprocesses ==
    /\ Active = Ids
    /\ \A r \in Active : proc[r].state = "running"
    /\ proc[1].spawn.dir # proc[2].spawn.dir
    /\ proc[1].rd = req[1].body /\ proc[1].rd # <<>>
    /\ pc[1] = "copy-out" /\ pc[2] = "copy-in"

\* The version v is at least the version m
AtLeast(v, m) ==
    \/ v[1] > m[1]
    \/ v[1] = m[1] /\ v[2] > m[2]
    \/ v[1] = m[1] /\ v[2] = m[2] /\ v[3] >= m[3]

\* C22: requests are handled only after the version check has run and
\* returned true; with an installed executable below 2.2.1 the check fails
\* and no request is ever handled.
C22_ServesOnlyCheckedVersion ==
    /\ Active # {} => res = <<TRUE>>
    /\ ~AtLeast(name, <<2, 2, 1>>) => res # <<TRUE>> /\ Active = {}

\* The subprocess of the request has the stdin pipe as its standard input
HasStdinPipe(r) == Spawned(r) /\ ~pipes[r].stdinNil

\* The write end of the stdin pipe is closed by this step
ClosesStdin(r) == pipes[r].wOpen /\ ~pipes'[r].wOpen

\* C23: the stdin pipe of a subprocess is not closed before the subprocess
\* has exited: it stays open after the body copy, during the stdout copy,
\* and is closed only by the final cmd.Wait (or by a cmd.Start that failed,
\* which leaves no subprocess); so a subprocess that reads the pipe until
\* the end of file before it exits never exits, and its request never
\* reaches done.
C23_StdinOpenUntilExit ==
    /\ [](\A r \in Active :
            HasStdinPipe(r) =>
                /\ proc[r].state = "running"
                /\ pipes[r].wOpen
                /\ pc[r] # "done")
    /\ [][\A r \in Active :
            ClosesStdin(r) =>
                \/ pc[r] = "wait" /\ pc'[r] = "done" /\ proc[r].state # "running"
                \/ pc[r] = "start" /\ ~Spawned(r)']_vars

\* The body copy has finished and the subprocess has read the whole body
\* and written all its output, which the server has forwarded: the
\* subprocess waits for the end of its input, the server for the end of
\* its output
C23_BothWaiting ==
    \E r \in Active :
        /\ pc[r] = "copy-out" /\ HasStdinPipe(r) /\ pipes[r].rOpen
        /\ req[r].body # <<>> /\ proc[r].rd = req[r].body
        /\ pipes[r].stdin = <<>> /\ pipes[r].stdout = <<>>
        /\ Len(proc[r].wr) = MaxOut /\ w[r].body = proc[r].wr
        /\ ~ENABLED NextUntilEof

\* C24: under fair scheduling, with a finite body and a subprocess that
\* exits without waiting for the end of its input and whose output fits
\* the stdout pipe, every request eventually reaches done or rejected.
C24_EveryRequestTerminates == <>(\A r \in Active : Finished(r))

=============================================================================
